---- MODULE Spec2Model ----
(***************************************************************************)
(* Configuration loading and live reload of lib/config.module.ts:          *)
(* ConfigModule.forRoot (env files, process environment, dynamic JSON      *)
(* file, validation gate, process-environment sync), the provider          *)
(* factories and constructor that commit the validated snapshot and start  *)
(* the file watcher, the watcher's add/change handlers, onModuleDestroy.   *)
(***************************************************************************)
EXTENDS Integers, Sequences, FiniteSets, TLC

VARIABLES
  options,            \* ConfigModuleOptions given to forRoot
  envFiles,           \* the file system at the env-file paths
  dynFile,            \* the file system at options.dynamicConfigPath
  processEnv,         \* process.env
  phase,              \* "start", "aborted", "configured", "running", "destroyed"
  error,              \* what forRoot threw ("none" when it returned)
  config,             \* forRoot's local `config` as handed to the validation gate
  validatedEnvConfig, \* forRoot's local `validatedEnvConfig`
  internalConfig,     \* the host configuration object (CONFIGURATION_TOKEN)
  watcher,            \* this.watcher: "none", "watching", "unwatched"
  pending,            \* watcher events emitted and not yet handled
  handled,            \* the last run of an add/change handler
  writes,             \* number of changes made to the dynamic file
  destroyCalls,       \* number of onModuleDestroy calls
  env0,               \* process.env as it was before forRoot
  dynFile0,           \* the dynamic file as it was at startup
  changedAfterDestroy, \* the dynamic file changed after onModuleDestroy
  schemaCall,         \* the options validationSchema.validate was called with
  errorFields         \* the fields the validation error's message names

vars == <<options, envFiles, dynFile, processEnv, phase, error, config,
          validatedEnvConfig, internalConfig, watcher, pending, handled,
          writes, destroyCalls, env0, dynFile0, changedAfterDestroy,
          schemaCall, errorFields>>

\* what the validation gate leaves behind
gate == <<schemaCall, errorFields>>

----------------------------------------------------------------------------
(* Bounds *)

MaxWrites == 2
MaxDestroyCalls == 2

----------------------------------------------------------------------------
(* JavaScript values.  A value is a type tag and its text, so that a       *)
(* number and the string it is coerced to are different values.            *)

Keys == {"A", "B"}

V(t, s) == [t |-> t, s |-> s]
Undefined == V("undefined", "undefined")
Null == V("null", "null")
Num(s) == V("number", s)
Str(s) == V("string", s)

\* process.env[key] = value stores String(value)
String(x) == Str(x.s)

Truthy(x) ==
  /\ x.t \notin {"undefined", "null"}
  /\ ~(x.t = "number" /\ x.s = "0")
  /\ ~(x.t = "string" /\ x.s = "")

EmptyMap == [k \in {} |-> Undefined]

\* { ...lo, ...hi } and Object.assign(lo, hi): the later source wins
Merge(lo, hi) ==
  [k \in DOMAIN lo \cup DOMAIN hi |-> IF k \in DOMAIN hi THEN hi[k] ELSE lo[k]]

\* an optional object: a local or property that holds an object or undefined
NoObject == [defined |-> FALSE, obj |-> EmptyMap]
Object(m) == [defined |-> TRUE, obj |-> m]

----------------------------------------------------------------------------
(* Env files: dotenv.parse gives a mapping of keys to strings; a string    *)
(* is a literal or one ${KEY} reference.                                   *)

Ref(k) == "${" \o k \o "}"
IsRef(s) == \E k \in Keys : s = Ref(k)
RefKey(s) == CHOOSE k \in Keys : s = Ref(k)

DefaultEnvPath == ".env"
EnvPaths == {DefaultEnvPath, ".env.local", ".env.missing"}

AbsentEnvFile == [kind |-> "absent", parsed |-> EmptyMap]
UnreadableEnvFile == [kind |-> "unreadable", parsed |-> EmptyMap]
EnvFile(m) == [kind |-> "file", parsed |-> m]

\* the recursion of interpolate never ends on a cycle of references: the
\* call stack overflows and dotenvExpand throws
Overflow == V("RangeError", "Maximum call stack size exceeded")

RECURSIVE interpolate(_, _, _, _)
interpolate(envValue, environment, parsed, fuel) ==
  IF ~IsRef(envValue.s) THEN envValue
  ELSE IF fuel = 0 THEN Overflow
  ELSE LET key == RefKey(envValue.s)
           value == IF key \in DOMAIN environment THEN environment[key]
                    ELSE IF key \in DOMAIN parsed /\ Truthy(parsed[key])
                         THEN parsed[key]
                         ELSE Str("")
       IN interpolate(value, environment, parsed, fuel - 1)

\* an expansion that writes the values as parsed, references and all, to the
\* environment
dotenvExpand_WritesUnexpanded(parsed, environment) ==
  LET expanded == [k \in DOMAIN parsed |->
                     interpolate(IF k \in DOMAIN environment
                                 THEN environment[k] ELSE parsed[k],
                                 environment, parsed, Cardinality(Keys) + 1)]
  IN IF \E k \in DOMAIN expanded : expanded[k] = Overflow
     THEN [raised |-> TRUE, parsed |-> parsed, env |-> environment]
     ELSE [raised |-> FALSE, parsed |-> expanded,
           env |-> Merge(environment, parsed)]

\* dotenvExpand({ parsed }) of dotenv-expand 5.1.0: each key takes the
\* interpolation of the process environment's value when it has one, else of
\* the parsed value, and every resulting key is written to the environment
dotenvExpand(parsed, environment) ==
  LET expanded == [k \in DOMAIN parsed |->
                     interpolate(IF k \in DOMAIN environment
                                 THEN environment[k] ELSE parsed[k],
                                 environment, parsed, Cardinality(Keys) + 1)]
  IN IF \E k \in DOMAIN expanded : expanded[k] = Overflow
     THEN [raised |-> TRUE, parsed |-> parsed, env |-> environment]
     ELSE [raised |-> FALSE, parsed |-> expanded,
           env |-> Merge(environment, expanded)]

envFilePaths(opts) ==
  IF opts.envFilePath.t = "array" THEN opts.envFilePath.paths
  ELSE IF opts.envFilePath.t = "string" THEN opts.envFilePath.paths
  ELSE <<DefaultEnvPath>>

\* a merge that lets the file just parsed win over the files read so far
mergeEnvFile_LaterWins(parsedFile, cfg) == Merge(cfg, parsedFile)

\* lines 182-185: Object.assign(dotenv.parse(...), config), so that the
\* files read so far win over the file just parsed
mergeEnvFile(parsedFile, cfg) == Merge(parsedFile, cfg)

\* one iteration of the loop of loadEnvFile over the rest of the paths
RECURSIVE loadEnvFileFrom(_, _, _, _, _)
loadEnvFileFrom(paths, files, expand, cfg, environment) ==
  IF paths = <<>> THEN [raised |-> FALSE, config |-> cfg, env |-> environment]
  ELSE LET file == files[Head(paths)] IN
    IF file.kind = "absent"
    THEN loadEnvFileFrom(Tail(paths), files, expand, cfg, environment)
    ELSE IF file.kind = "unreadable"
    THEN [raised |-> TRUE, config |-> cfg, env |-> environment]
    ELSE LET merged == mergeEnvFile(file.parsed, cfg) IN
      IF ~expand
      THEN loadEnvFileFrom(Tail(paths), files, expand, merged, environment)
      ELSE LET e == dotenvExpand(merged, environment) IN
        IF e.raised
        THEN [raised |-> TRUE, config |-> cfg, env |-> environment]
        ELSE loadEnvFileFrom(Tail(paths), files, expand, e.parsed, e.env)

loadEnvFile(opts, files, environment) ==
  loadEnvFileFrom(envFilePaths(opts), files, opts.expandVariables,
                  EmptyMap, environment)

----------------------------------------------------------------------------
(* The dynamic file: absent, unreadable, text that is no JSON, or a JSON   *)
(* document.  A document is a scalar or an object with properties and,     *)
(* possibly, a "data" property.                                            *)

NoData == [present |-> FALSE, t |-> "undefined", s |-> "undefined",
           props |-> EmptyMap]
DataObject(m) == [present |-> TRUE, t |-> "object", s |-> "", props |-> m]
DataScalar(x) == [present |-> TRUE, t |-> x.t, s |-> x.s, props |-> EmptyMap]

JObject(props, data) == [t |-> "object", s |-> "", props |-> props, data |-> data]
JScalar(x) == [t |-> x.t, s |-> x.s, props |-> EmptyMap, data |-> NoData]

AbsentFile == [kind |-> "absent", json |-> JScalar(Null)]
UnreadableFile == [kind |-> "unreadable", json |-> JScalar(Null)]
MalformedFile == [kind |-> "malformed", json |-> JScalar(Null)]
JsonFile(j) == [kind |-> "json", json |-> j]

\* what loadDynamicFile gives: it raised, or it returned a value that is an
\* object with properties or a scalar
Returned(t, s, props) == [raised |-> FALSE, t |-> t, s |-> s, props |-> props]
Raised == [raised |-> TRUE, t |-> "undefined", s |-> "undefined",
           props |-> EmptyMap]
EmptyObject == Returned("object", "", EmptyMap)

\* the own properties of a parsed JSON object that is returned whole: its
\* "data" property, when it has one, is then a falsy scalar
JsonProps(json) ==
  IF json.data.present
  THEN IF json.data.t = "object"
       THEN json.props
       ELSE Merge(json.props, [k \in {"data"} |-> V(json.data.t, json.data.s)])
  ELSE json.props

loadDynamicFile(pathDefined, file) ==
  IF pathDefined /\ file.kind # "absent"
  THEN IF file.kind = "unreadable" THEN Raised
       ELSE IF file.kind = "malformed" THEN EmptyObject
       ELSE LET json == file.json
                \* json?.data
                data == IF json.t = "object" THEN json.data ELSE NoData
                dataTruthy == data.present
                              /\ (data.t = "object" \/ Truthy(V(data.t, data.s)))
                \* json?.data || json
                variables ==
                  IF dataTruthy
                  THEN Returned(data.t, data.s, data.props)
                  ELSE Returned(json.t, json.s, JsonProps(json))
                variablesTruthy ==
                  variables.t = "object" \/ Truthy(V(variables.t, variables.s))
            IN IF variablesTruthy THEN variables ELSE EmptyObject
  ELSE EmptyObject

\* the own enumerable properties a spread or Object.assign copies
Props(value) == IF value.t = "object" THEN value.props ELSE EmptyMap

----------------------------------------------------------------------------
(* ConfigModule.forRoot up to the process-environment sync                 *)

PathDefined(path) == path # ""

\* options.validationOptions: not given, or an object whose abortEarly and
\* allowUnknown are "undefined", "true" or "false"
NoValidationOptions ==
  [given |-> FALSE, abortEarly |-> "undefined", allowUnknown |-> "undefined"]
ValidationOptions(abortEarly, allowUnknown) ==
  [given |-> TRUE, abortEarly |-> abortEarly, allowUnknown |-> allowUnknown]

getSchemaValidationOptions(opts) ==
  IF opts.validationOptions.given
  THEN IF opts.validationOptions.allowUnknown = "undefined"
       THEN [opts.validationOptions EXCEPT !.allowUnknown = "true"]
       ELSE opts.validationOptions
  ELSE ValidationOptions("false", "true")

NotCalled == [called |-> FALSE, options |-> NoValidationOptions]
CalledWith(validationOptions) == [called |-> TRUE, options |-> validationOptions]

\* what the validator is called with: options.validate takes the
\* configuration alone
validatorOptions(opts) ==
  IF opts.validation = "schema" THEN getSchemaValidationOptions(opts)
  ELSE NoValidationOptions

\* the fields a validator finds at fault: the keys it requires that are
\* missing and, for a schema told not to allow them, the keys it does not
\* declare
Offending(opts, cfg) ==
  (opts.required \ DOMAIN cfg)
    \cup IF validatorOptions(opts).allowUnknown = "false"
         THEN DOMAIN cfg \ opts.required ELSE {}

\* the fields the error names: the schema validator stops at the first
\* unless it is called with abortEarly false
Reported(opts, cfg) ==
  LET fields == Offending(opts, cfg)
  IN IF fields = {} \/ validatorOptions(opts).abortEarly = "false"
     THEN fields
     ELSE {CHOOSE f \in fields : TRUE}

\* options.validate(config) throws, or validationSchema.validate(config)
\* returns an error, when a key the validator requires is missing
ValidationFails(opts, cfg) == Offending(opts, cfg) # {}

assignVariablesToProcess(cfg, environment) ==
  LET keys == {key \in DOMAIN cfg : key \notin DOMAIN environment}
  IN [key \in DOMAIN environment \cup keys |->
        IF key \in keys THEN String(cfg[key]) ELSE environment[key]]

Thrown(what, environment, cfg) ==
  [error |-> what, env |-> environment, config |-> cfg,
   validatedEnvConfig |-> NoObject, schemaCall |-> NotCalled, fields |-> {}]

\* lines 47-53: the merge handed to the validation gate
mergeSources(opts, cfg, environment, dynamicConfig) ==
  IF ~opts.ignoreEnvVars
  THEN Merge(Merge(cfg, environment), Props(dynamicConfig))
  ELSE cfg

\* lines 54-72: the validation gate and the sync
validateAndAssign(opts, cfg, environment) ==
  LET call == IF opts.validation = "schema"
              THEN CalledWith(getSchemaValidationOptions(opts))
              ELSE NotCalled
  IN IF opts.validation \in {"validate", "schema"}
     THEN IF ValidationFails(opts, cfg)
          THEN [Thrown("validation", environment, Object(cfg))
                  EXCEPT !.schemaCall = call, !.fields = Reported(opts, cfg)]
          ELSE [error |-> "none",
                env |-> assignVariablesToProcess(cfg, environment),
                config |-> Object(cfg),
                validatedEnvConfig |-> Object(cfg),
                schemaCall |-> call, fields |-> {}]
     ELSE [error |-> "none",
           env |-> assignVariablesToProcess(cfg, environment),
           config |-> Object(cfg),
           validatedEnvConfig |-> NoObject,
           schemaCall |-> NotCalled, fields |-> {}]

forRoot(opts, files, dyn, environment) ==
  LET loaded == IF opts.ignoreEnvFile
                THEN [raised |-> FALSE, config |-> EmptyMap, env |-> environment]
                ELSE loadEnvFile(opts, files, environment)
      dynamicConfig == loadDynamicFile(PathDefined(opts.dynamicConfigPath), dyn)
  IN IF loaded.raised THEN Thrown("env file", loaded.env, NoObject)
     ELSE IF dynamicConfig.raised THEN Thrown("dynamic file", loaded.env, NoObject)
     ELSE validateAndAssign(opts,
            mergeSources(opts, loaded.config, loaded.env, dynamicConfig),
            loaded.env)

ForRoot ==
  /\ phase = "start"
  /\ options.entry = "forRoot"
  /\ LET r == forRoot(options, envFiles, dynFile, processEnv) IN
       /\ processEnv' = r.env
       /\ error' = r.error
       /\ config' = r.config
       /\ validatedEnvConfig' = r.validatedEnvConfig
       /\ schemaCall' = r.schemaCall
       /\ errorFields' = r.fields
       /\ phase' = IF r.error = "none" THEN "configured" ELSE "aborted"
  /\ UNCHANGED <<options, envFiles, dynFile, internalConfig, watcher, pending,
                 handled, writes, destroyCalls, env0, dynFile0,
                 changedAfterDestroy>>

\* forFeature(config) reads no file and validates nothing
ForFeature ==
  /\ phase = "start"
  /\ options.entry = "forFeature"
  /\ phase' = "configured"
  /\ UNCHANGED <<options, envFiles, dynFile, processEnv, error, config,
                 validatedEnvConfig, internalConfig, watcher, pending,
                 handled, writes, destroyCalls, env0, dynFile0,
                 changedAfterDestroy, gate>>

----------------------------------------------------------------------------
(* The providers forRoot and forFeature return.  A configuration factory   *)
(* carries the registration token it was registered as and produces a      *)
(* partial; a provider has a token to inject it by and a factory.          *)

Factory(token, partial) == [token |-> token, partial |-> partial]
NoToken == "undefined"
NoFactory == Factory(NoToken, EmptyMap)

createConfigProvider(factory) ==
  [provide |-> factory.token, useFactory |-> factory]

RECURSIVE map(_)
map(load) ==
  IF load = <<>> THEN <<>>
  ELSE <<createConfigProvider(Head(load))>> \o map(Tail(load))

configServiceProvider == [provide |-> "ConfigService", useFactory |-> NoFactory]
validatedEnvConfigLoaderProvider ==
  [provide |-> "VALIDATED_ENV_LOADER", useFactory |-> NoFactory]
dynamicConfigPathProvider ==
  [provide |-> "DYNAMIC_CONFIG_PATH", useFactory |-> NoFactory]

\* a provider list that puts the service provider in front of the
\* configuration providers
forRootProviders_ServiceFirst(opts, validated) ==
  <<configServiceProvider>>
    \o map(opts.load)
    \o (IF validated.defined THEN <<validatedEnvConfigLoaderProvider>>
        ELSE <<>>)
    \o <<dynamicConfigPathProvider>>

\* lines 75-108: the configuration providers, then the pushed ones
forRootProviders(opts, validated) ==
  map(opts.load)
    \o <<configServiceProvider>>
    \o (IF validated.defined THEN <<validatedEnvConfigLoaderProvider>>
        ELSE <<>>)
    \o <<dynamicConfigPathProvider>>

\* providers.map(item => item.provide), taken before anything is pushed
configProviderTokens(opts) ==
  [i \in 1..Len(opts.load) |-> createConfigProvider(opts.load[i]).provide]

\* the host's injection: the value of a token is what the factory of the
\* provider registered under it returns
inject(token, providers) ==
  LET i == CHOOSE i \in 1..Len(providers) : providers[i].provide = token
  IN providers[i].useFactory.partial

getRegistrationToken(factoryRef) == factoryRef.token

mergeConfigObject(host, item, token) ==
  [host EXCEPT !.partials = (token :> item) @@ @]

mergePartial(host, item, provider) ==
  mergeConfigObject(host, item, getRegistrationToken(provider.useFactory))

\* configurations.forEach((item, index) => mergePartial(host, item,
\* providers[index])), from position index on
RECURSIVE forEach(_, _, _, _)
forEach(host, configurations, providers, index) ==
  IF index > Len(configurations) THEN host
  ELSE forEach(mergePartial(host, configurations[index], providers[index]),
               configurations, providers, index + 1)

\* CONFIGURATION_LOADER of forRoot, registered when there is something to load
configurationLoader(opts, host, validated) ==
  LET providers == forRootProviders(opts, validated)
      tokens == configProviderTokens(opts)
      configurations == [i \in 1..Len(tokens) |-> inject(tokens[i], providers)]
  IN IF Len(opts.load) > 0
     THEN forEach(host, configurations, providers, 1)
     ELSE host

\* CONFIGURATION_LOADER of forFeature
featureLoader(opts, host) ==
  LET configProvider == createConfigProvider(opts.feature)
      partialConfig == inject(configProvider.provide, <<configProvider>>)
  IN mergePartial(host, partialConfig, configProvider)

\* the path a module instance is given as DYNAMIC_CONFIG_PATH
dynamicConfigPath(opts) ==
  IF opts.entry = "forRoot" THEN opts.dynamicConfigPath ELSE ""

----------------------------------------------------------------------------
(* The provider factories and the constructor, run by the host             *)

\* validatedEnvConfigLoader: registered only when validatedEnvConfig is set
validatedEnvConfigLoader(host, validated) ==
  IF validated.defined THEN [host EXCEPT !.validated = validated] ELSE host

\* a constructor that starts a watcher whatever it is given
constructorWatcher_Always(path) == "watching"

\* the constructor starts a watcher when a dynamic path is injected; the
\* watcher's first scan emits add for a file that exists
constructorWatcher(path) == IF PathDefined(path) THEN "watching" ELSE "none"

Bootstrap ==
  /\ phase = "configured"
  /\ phase' = "running"
  /\ internalConfig' =
       IF options.entry = "forRoot"
       THEN configurationLoader(options,
              validatedEnvConfigLoader(internalConfig, validatedEnvConfig),
              validatedEnvConfig)
       ELSE featureLoader(options, internalConfig)
  /\ watcher' = constructorWatcher(dynamicConfigPath(options))
  /\ pending' = IF watcher' = "watching" /\ dynFile.kind # "absent"
                THEN {"add"} ELSE {}
  /\ UNCHANGED <<options, envFiles, dynFile, processEnv, error, config,
                 validatedEnvConfig, handled, writes, destroyCalls, env0,
                 dynFile0, changedAfterDestroy,
                 gate>>

----------------------------------------------------------------------------
(* The dynamic file changes on disk                                        *)

DynDocs ==
  { JsonFile(JObject(EmptyMap, DataObject([k \in {"A"} |-> Num("8888")]))),
    JsonFile(JObject(EmptyMap, DataObject([k \in {"A"} |-> Num("9999")]))),
    JsonFile(JObject([k \in {"B"} |-> Num("9999")], NoData)),
    JsonFile(JObject([k \in {"A"} |-> Num("8888")], DataScalar(Num("0")))),
    JsonFile(JScalar(Num("5"))),
    JsonFile(JScalar(Null)),
    MalformedFile,
    UnreadableFile }

\* the event the watcher emits for a write to the watched path
emitted(before) == IF before.kind = "absent" THEN "add" ELSE "change"

WriteFile ==
  /\ phase \in {"running", "destroyed"}
  /\ writes < MaxWrites
  /\ writes' = writes + 1
  /\ changedAfterDestroy' = (phase = "destroyed")
  /\ \E doc \in DynDocs : dynFile' = doc
  /\ pending' = IF watcher = "watching" THEN pending \cup {emitted(dynFile)}
                ELSE pending
  /\ UNCHANGED <<options, envFiles, processEnv, phase, error, config,
                 validatedEnvConfig, internalConfig, watcher, handled,
                 destroyCalls, env0, dynFile0,
                 gate>>

\* unlink: the watcher has no listener for it
RemoveFile ==
  /\ phase \in {"running", "destroyed"}
  /\ writes < MaxWrites
  /\ dynFile.kind # "absent"
  /\ writes' = writes + 1
  /\ changedAfterDestroy' = (phase = "destroyed")
  /\ dynFile' = AbsentFile
  /\ UNCHANGED <<options, envFiles, processEnv, phase, error, config,
                 validatedEnvConfig, internalConfig, watcher, pending, handled,
                 destroyCalls, env0, dynFile0,
                 gate>>

----------------------------------------------------------------------------
(* The watcher's listeners (lines 261-269)                                 *)

NotHandled == [event |-> "none", saw |-> AbsentFile, raised |-> "none"]

\* a listener that puts the loaded mapping in the place of the snapshot
assignToSnapshot_Replaces(host, newConfig) ==
  IF ~host.validated.defined
  THEN [raised |-> "TypeError", host |-> host]
  ELSE [raised |-> "none",
        host |-> [host EXCEPT !.validated = Object(Props(newConfig))]]

\* Object.assign(this.internalConfig[VALIDATED_ENV_PROPNAME], newConfig)
assignToSnapshot(host, newConfig) ==
  IF ~host.validated.defined
  THEN [raised |-> "TypeError", host |-> host]
  ELSE [raised |-> "none",
        host |-> [host EXCEPT !.validated =
                    Object(Merge(host.validated.obj, Props(newConfig)))]]

\* a listener that syncs what it loaded into the process environment, as
\* startup does
onFileEvent_SyncsEnvironment(host, environment, file) ==
  LET newConfig == loadDynamicFile(TRUE, file)
  IN IF newConfig.raised
     THEN [raised |-> "read error", host |-> host, env |-> environment]
     ELSE LET assigned == assignToSnapshot(host, newConfig)
          IN [raised |-> assigned.raised, host |-> assigned.host,
              env |-> assignVariablesToProcess(Props(newConfig), environment)]

\* the body of both listeners: what it raises, the host and the process
\* environment it leaves
onFileEvent(host, environment, file) ==
  LET newConfig == loadDynamicFile(TRUE, file)
  IN IF newConfig.raised
     THEN [raised |-> "read error", host |-> host, env |-> environment]
     ELSE LET assigned == assignToSnapshot(host, newConfig)
          IN [raised |-> assigned.raised, host |-> assigned.host,
              env |-> environment]

\* .on('add', (path) => ...)
OnAdd ==
  /\ watcher = "watching"
  /\ "add" \in pending
  /\ pending' = pending \ {"add"}
  /\ LET r == onFileEvent(internalConfig, processEnv, dynFile) IN
       /\ internalConfig' = r.host
       /\ processEnv' = r.env
       /\ handled' = [event |-> "add", saw |-> dynFile, raised |-> r.raised]
  /\ UNCHANGED <<options, envFiles, dynFile, phase, error, config,
                 validatedEnvConfig, watcher, writes, destroyCalls, env0,
                 dynFile0, changedAfterDestroy,
                 gate>>

\* .on('change', (path) => ...)
OnChange ==
  /\ watcher = "watching"
  /\ "change" \in pending
  /\ pending' = pending \ {"change"}
  /\ LET r == onFileEvent(internalConfig, processEnv, dynFile) IN
       /\ internalConfig' = r.host
       /\ processEnv' = r.env
       /\ handled' = [event |-> "change", saw |-> dynFile, raised |-> r.raised]
  /\ UNCHANGED <<options, envFiles, dynFile, phase, error, config,
                 validatedEnvConfig, watcher, writes, destroyCalls, env0,
                 dynFile0, changedAfterDestroy,
                 gate>>

----------------------------------------------------------------------------
(* onModuleDestroy (lines 273-276): unwatch releases the path, and the     *)
(* watcher emits nothing for it any more                                   *)

\* a teardown that forgets to release the watch
onModuleDestroy_KeepsWatching(w) == w

onModuleDestroy(w) == IF w # "none" THEN "unwatched" ELSE w

OnModuleDestroy ==
  /\ phase \in {"running", "destroyed"}
  /\ destroyCalls < MaxDestroyCalls
  /\ destroyCalls' = destroyCalls + 1
  /\ phase' = "destroyed"
  /\ watcher' = onModuleDestroy(watcher)
  /\ pending' = IF watcher' = "unwatched" THEN {} ELSE pending
  /\ UNCHANGED <<options, envFiles, dynFile, processEnv, error, config,
                 validatedEnvConfig, internalConfig, handled, writes, env0,
                 dynFile0, changedAfterDestroy,
                 gate>>

----------------------------------------------------------------------------
(* ConfigService.get: the validated snapshot first, then the host store    *)

get(host, key) ==
  IF host.validated.defined /\ key \in DOMAIN host.validated.obj
     /\ host.validated.obj[key] # Undefined
  THEN host.validated.obj[key]
  ELSE IF key \in DOMAIN host.store THEN host.store[key]
  ELSE Undefined

----------------------------------------------------------------------------
(* Inputs *)

EnvFilePathChoices ==
  { [t |-> "undefined", paths |-> <<>>],
    [t |-> "string", paths |-> <<".env.local">>],
    [t |-> "array", paths |-> <<".env", ".env.local">>],
    [t |-> "array", paths |-> <<".env.missing", ".env.local", ".env">>] }

Validators ==
  { [validation |-> "none", required |-> {},
     validationOptions |-> NoValidationOptions],
    [validation |-> "validate", required |-> {},
     validationOptions |-> NoValidationOptions],
    [validation |-> "validate", required |-> {"B"},
     validationOptions |-> NoValidationOptions],
    [validation |-> "schema", required |-> {},
     validationOptions |-> NoValidationOptions],
    [validation |-> "schema", required |-> {"B"},
     validationOptions |-> NoValidationOptions],
    [validation |-> "schema", required |-> {"A", "B"},
     validationOptions |-> NoValidationOptions],
    [validation |-> "schema", required |-> {"A", "B"},
     validationOptions |-> ValidationOptions("undefined", "undefined")],
    [validation |-> "schema", required |-> {"A", "B"},
     validationOptions |-> ValidationOptions("true", "undefined")],
    [validation |-> "schema", required |-> {"A", "B"},
     validationOptions |-> ValidationOptions("false", "false")] }

DynamicPaths == {"", "dynamic.json"}

OptionsOf(ief, iev, ex, efp, dcp, val) ==
  [ignoreEnvFile |-> ief, ignoreEnvVars |-> iev, expandVariables |-> ex,
   envFilePath |-> efp, dynamicConfigPath |-> dcp,
   validation |-> val.validation, required |-> val.required,
   validationOptions |-> val.validationOptions,
   entry |-> "forRoot", load |-> <<>>, feature |-> NoFactory]

AllOptions ==
  { OptionsOf(ief, iev, ex, efp, dcp, val) :
      ief \in BOOLEAN, iev \in BOOLEAN, ex \in BOOLEAN,
      efp \in EnvFilePathChoices, dcp \in DynamicPaths, val \in Validators }

WatchOptions ==
  { o \in AllOptions : /\ ~o.ignoreEnvFile
                       /\ ~o.expandVariables
                       /\ ~o.validationOptions.given
                       /\ o.required # {"A", "B"}
                       /\ o.envFilePath.t = "undefined" }

\* registerAs('database', ...) and registerAs('cache', ...)
Database == Factory("database", [k \in {"A"} |-> Str("db")])
Cache == Factory("cache", [k \in {"A"} |-> Str("cache")])
Factories == {Database, Cache}

LoadChoices ==
  {<<Database>>, <<Cache>>, <<Database, Cache>>, <<Cache, Database>>}

Defaults ==
  OptionsOf(FALSE, FALSE, FALSE, [t |-> "undefined", paths |-> <<>>], "",
            [validation |-> "none", required |-> {},
             validationOptions |-> NoValidationOptions])

\* forFeature(config)
FeatureOptions ==
  { [Defaults EXCEPT !.entry = "forFeature", !.feature = f] : f \in Factories }

\* the partials a host may hold when the module is built: none, or those an
\* earlier registration left
HostPartials ==
  { EmptyMap, [t \in {"database"} |-> [k \in {"B"} |-> Str("old")]] }

EnvFileSystems ==
  { [p \in EnvPaths |-> AbsentEnvFile],
    (".env" :> EnvFile([k \in {"A"} |-> Str("1")]))
      @@ (".env.local" :> EnvFile(("A" :> Str("2")) @@ ("B" :> Str("3"))))
      @@ (".env.missing" :> AbsentEnvFile),
    (".env" :> EnvFile([k \in {"A"} |-> Str(Ref("B"))]))
      @@ (".env.local" :> EnvFile([k \in {"B"} |-> Str("2")]))
      @@ (".env.missing" :> AbsentEnvFile),
    (".env" :> EnvFile(("A" :> Str(Ref("B"))) @@ ("B" :> Str(Ref("A")))))
      @@ (".env.local" :> UnreadableEnvFile)
      @@ (".env.missing" :> AbsentEnvFile) }

ProcessEnvs ==
  { EmptyMap,
    [k \in {"A"} |-> Str("7")],
    [k \in {"B"} |-> Str("7")],
    [k \in {"A"} |-> Str(Ref("B"))] }

StartupFiles(path) == IF PathDefined(path) THEN DynDocs \cup {AbsentFile}
                      ELSE {AbsentFile}

InitWith(optionSet, fileSystems, environments, startupFiles, hostPartials) ==
  /\ options \in optionSet
  /\ envFiles \in fileSystems
  /\ processEnv \in environments
  /\ dynFile \in StartupFiles(dynamicConfigPath(options)) \cap startupFiles
  /\ env0 = processEnv
  /\ dynFile0 = dynFile
  /\ changedAfterDestroy = FALSE
  /\ phase = "start"
  /\ error = "none"
  /\ config = NoObject
  /\ validatedEnvConfig = NoObject
  /\ \E partials \in hostPartials :
       internalConfig = [validated |-> NoObject, store |-> EmptyMap,
                         partials |-> partials]
  /\ watcher = "none"
  /\ pending = {}
  /\ handled = NotHandled
  /\ writes = 0
  /\ destroyCalls = 0
  /\ schemaCall = NotCalled
  /\ errorFields = {}

\* watching modules that load a factory
LoadingOptions ==
  { [o EXCEPT !.load = <<Database>>] :
      o \in { w \in WatchOptions : /\ PathDefined(w.dynamicConfigPath)
                                   /\ ~w.ignoreEnvVars
                                   /\ w.required = {} } }

\* the life of one module: startup, file changes, reloads, teardown
Init ==
  InitWith(WatchOptions \cup LoadingOptions \cup FeatureOptions,
           {fs \in EnvFileSystems : fs[".env"] = EnvFile([k \in {"A"} |-> Str("1")])},
           {e \in ProcessEnvs : "B" \notin DOMAIN e /\ \A k \in DOMAIN e : ~IsRef(e[k].s)},
           {AbsentFile, UnreadableFile, MalformedFile,
            JsonFile(JObject(EmptyMap, DataObject([k \in {"A"} |-> Num("8888")])))},
           {EmptyMap})

Next ==
  \/ ForRoot
  \/ ForFeature
  \/ Bootstrap
  \/ WriteFile
  \/ RemoveFile
  \/ OnAdd
  \/ OnChange
  \/ OnModuleDestroy

Spec == Init /\ [][Next]_vars

\* startup alone, over every combination of the options
InitStartup ==
  InitWith(AllOptions, EnvFileSystems, ProcessEnvs, DynDocs \cup {AbsentFile},
           {EmptyMap})

NextStartup ==
  \/ ForRoot
  \/ Bootstrap

SpecStartup == InitStartup /\ [][NextStartup]_vars

\* registration: forRoot with a load list and forFeature, on a host that may
\* hold earlier partials
RegisterOptions ==
  { [o EXCEPT !.load = load] :
      o \in { w \in WatchOptions : ~w.ignoreEnvVars /\ w.required = {} },
      load \in LoadChoices }
    \cup FeatureOptions

InitRegister ==
  InitWith(RegisterOptions, EnvFileSystems, ProcessEnvs,
           {AbsentFile,
            JsonFile(JObject(EmptyMap, DataObject([k \in {"A"} |-> Num("8888")])))},
           HostPartials)

NextRegister ==
  \/ ForRoot
  \/ ForFeature
  \/ Bootstrap

SpecRegister == InitRegister /\ [][NextRegister]_vars

----------------------------------------------------------------------------
(* Properties *)

\* the dynamic file holds key = value: in its "data" object when the document
\* has one, else at its top level
Holds(file, key, value) ==
  /\ file.kind = "json"
  /\ file.json.t = "object"
  /\ LET m == IF file.json.data.present /\ file.json.data.t = "object"
              THEN file.json.data.props
              ELSE IF ~file.json.data.present THEN file.json.props
              ELSE EmptyMap
     IN key \in DOMAIN m /\ m[key] = value

Values == {Num("8888"), Num("9999")}

\* C1: for any module configured with a dynamic path, a key the dynamic file
\* holds at startup is what get returns once the module runs, and after the
\* change listener has run on an overwritten file get returns the key's new
\* value
C1_RoundTrip ==
  \A k \in Keys, v \in Values :
    /\ ( /\ phase = "running"
         /\ PathDefined(options.dynamicConfigPath)
         /\ handled.event = "none"
         /\ writes = 0
         /\ Holds(dynFile, k, v) ) => get(internalConfig, k) = v
    /\ ( /\ handled.event = "change"
         /\ Holds(handled.saw, k, v) ) => get(internalConfig, k) = v

\* C2: whatever ignoreEnvFile and ignoreEnvVars are, the configuration handed
\* to the validation gate and to the sync gives every key the dynamic file
\* defines the dynamic file's value (the top of the claimed precedence)
C2_DynamicOverridesAll ==
  (phase # "start" /\ config.defined) =>
    LET dynamicConfig ==
          Props(loadDynamicFile(PathDefined(options.dynamicConfigPath), dynFile0))
    IN \A k \in DOMAIN dynamicConfig :
         k \in DOMAIN config.obj /\ config.obj[k] = dynamicConfig[k]

\* C3: loadDynamicFile never raises, and gives the empty mapping for an absent
\* path, a missing file, an unreadable file and a file that is no JSON
C3_LoaderNeverRaises ==
  phase # "start" =>
    LET pathDefined == PathDefined(options.dynamicConfigPath)
        r == loadDynamicFile(pathDefined, dynFile0)
    IN /\ ~r.raised
       /\ error # "dynamic file"
       /\ (~pathDefined \/ dynFile0.kind \in {"absent", "unreadable", "malformed"})
            => r = EmptyObject

\* C4: when the validation gate fails, forRoot aborts, the process environment
\* is as it was before the call and the host holds no validated snapshot
C4_AbortCommitsNothing ==
  (phase # "start" /\ config.defined /\ ValidationFails(options, config.obj)
     /\ options.validation # "none") =>
    /\ phase = "aborted"
    /\ processEnv = env0
    /\ ~internalConfig.validated.defined

\* C5: forRoot leaves every key the process environment already had at its
\* value, and sets every key of the configuration it syncs that was absent
C5_SyncNeverOverwrites ==
  /\ phase # "start" =>
       \A k \in DOMAIN env0 : k \in DOMAIN processEnv /\ processEnv[k] = env0[k]
  /\ (phase \in {"configured", "running"}) =>
       \A k \in DOMAIN config.obj : k \in DOMAIN processEnv

\* the files of the list that exist, and the first of them that defines key
Defines(files, path, key) ==
  files[path].kind = "file" /\ key \in DOMAIN files[path].parsed

Earliest(paths, files, key) ==
  LET i == CHOOSE i \in 1..Len(paths) :
             /\ Defines(files, paths[i], key)
             /\ \A j \in 1..(i - 1) : ~Defines(files, paths[j], key)
  IN files[paths[i]].parsed[key]

DefinedKeys(paths, files) ==
  {k \in Keys : \E i \in 1..Len(paths) : Defines(files, paths[i], k)}

AllReadable(paths, files) ==
  \A i \in 1..Len(paths) : files[paths[i]].kind # "unreadable"

C7_ConvergesToLastWrite ==
  \A k \in Keys, v \in Values :
    ( /\ watcher = "watching"
      /\ pending = {}
      /\ writes > 0
      /\ Holds(dynFile, k, v) ) => get(internalConfig, k) = v

\* C8: for a dynamic file absent at startup, get gives what the startup
\* configuration alone gives until a listener has run, and gives the created
\* file's values once the add listener has run on it
C8_OnlyAfterAdd ==
  dynFile0.kind = "absent" =>
    /\ (phase = "running" /\ handled.event = "none") =>
         \A k \in Keys :
           get(internalConfig, k)
             = get([internalConfig EXCEPT !.validated = validatedEnvConfig], k)
    /\ \A k \in Keys, v \in Values :
         (handled.event = "add" /\ Holds(handled.saw, k, v)) =>
           get(internalConfig, k) = v

\* C9: a listener of a module that holds a snapshot, finding the dynamic file
\* malformed or unreadable, raises nothing and leaves the stored snapshot as
\* it was
C9_ReloadFailureAbsorbed ==
  [][ ( /\ OnAdd \/ OnChange
        /\ internalConfig.validated.defined
        /\ dynFile.kind \in {"malformed", "unreadable"} ) =>
        (handled'.raised = "none" /\ internalConfig' = internalConfig) ]_vars

\* C10: after onModuleDestroy no step changes the stored snapshot, whatever is
\* written to the dynamic file; on a module without a watcher onModuleDestroy
\* changes nothing of the configuration; a repeated call changes nothing
C10_TeardownReleasesWatch ==
  [][ /\ destroyCalls > 0 =>
           (internalConfig' = internalConfig /\ processEnv' = processEnv)
      /\ (OnModuleDestroy /\ watcher = "none") =>
           UNCHANGED <<internalConfig, processEnv, watcher, pending, dynFile>>
      /\ (OnModuleDestroy /\ destroyCalls > 0) =>
           UNCHANGED <<internalConfig, processEnv, watcher, pending, dynFile,
                       phase,
                 gate>> ]_vars

\* a module that held a snapshot and watched its file was destroyed twice, the
\* file was then written with a value that the snapshot does not take
C10_Witness ==
  /\ destroyCalls = MaxDestroyCalls
  /\ watcher = "unwatched"
  /\ changedAfterDestroy
  /\ internalConfig.validated.defined
  /\ Holds(dynFile, "A", Num("9999"))
  /\ get(internalConfig, "A") # Num("9999")

\* what the caller asked for: an option the caller's validationOptions set
Explicit(opts, option) ==
  opts.validationOptions.given /\ opts.validationOptions[option] # "undefined"

\* C11: whenever the schema validator is called, it is called with abortEarly
\* false and allowUnknown true unless the caller's validationOptions set that
\* option, and the error of an abort then names every offending field
C11_SchemaOptionDefaults ==
  schemaCall.called =>
    /\ ~Explicit(options, "abortEarly") => schemaCall.options.abortEarly = "false"
    /\ ~Explicit(options, "allowUnknown") => schemaCall.options.allowUnknown = "true"
    /\ (error = "validation" /\ ~Explicit(options, "abortEarly")) =>
         errorFields = Offending(options, config.obj)

C13_ShallowMergeInPlace ==
  [][ ( /\ OnAdd \/ OnChange
        /\ ~loadDynamicFile(TRUE, dynFile).raised
        /\ Props(loadDynamicFile(TRUE, dynFile)) # EmptyMap ) =>
        LET loaded == Props(loadDynamicFile(TRUE, dynFile))
            before == internalConfig.validated.obj
            after == internalConfig'.validated.obj
        IN /\ handled'.raised = "none"
           /\ internalConfig'.validated.defined
           /\ DOMAIN after = DOMAIN before \cup DOMAIN loaded
           /\ \A k \in DOMAIN loaded : after[k] = loaded[k]
           /\ \A k \in DOMAIN before \ DOMAIN loaded : after[k] = before[k] ]_vars

\* a module built by forRoot with a dynamic config path
WithPath == options.entry = "forRoot" /\ PathDefined(options.dynamicConfigPath)

\* C14: a module has a watcher exactly when it was built by forRoot with a
\* dynamic config path, and then from its construction until its teardown;
\* any other module never has one, is sent no event, runs no listener and
\* keeps the snapshot of its startup whatever happens to the file
C14_WatcherFixedAtConstruction ==
  /\ phase \in {"start", "configured", "aborted"} => watcher = "none"
  /\ phase = "running" => (watcher = "watching" <=> WithPath)
  /\ phase = "destroyed" =>
       (watcher # "watching" /\ (watcher = "unwatched" <=> WithPath))
  /\ ~WithPath =>
       /\ watcher = "none"
       /\ pending = {}
       /\ handled = NotHandled
       /\ phase \in {"running", "destroyed"} =>
            internalConfig.validated = validatedEnvConfig

\* the file of a forFeature module was written while the module ran
C14_Witness ==
  /\ options.entry = "forFeature"
  /\ phase = "running"
  /\ writes > 0
  /\ dynFile.kind = "json"
  /\ watcher = "none"

\* C15: for a dynamic file that holds a JSON document, loadDynamicFile
\* returns a mapping: the document's data property when the document has one,
\* whatever its value, and else the whole document
C15_DataWheneverPresent ==
  ( /\ phase # "start"
    /\ PathDefined(dynamicConfigPath(options))
    /\ dynFile0.kind = "json" ) =>
    LET r == loadDynamicFile(TRUE, dynFile0)
        json == dynFile0.json
    IN /\ ~r.raised
       /\ r.t = "object"
       /\ (json.t = "object" /\ json.data.present) =>
            r = Returned(json.data.t, json.data.s, json.data.props)
       /\ (json.t = "object" /\ ~json.data.present) =>
            r = Returned("object", "", json.props)

\* C16: no step takes a key out of the stored snapshot, and a key of the
\* snapshot changes its value only when a listener loads that key from the
\* file, to the loaded value; removing the file changes nothing of it
C16_NoKeyRemoved ==
  [][ internalConfig.validated.defined =>
        LET before == internalConfig.validated.obj
            after == internalConfig'.validated.obj
            loaded == Props(loadDynamicFile(TRUE, dynFile))
        IN /\ internalConfig'.validated.defined
           /\ DOMAIN before \subseteq DOMAIN after
           /\ \A k \in DOMAIN before :
                after[k] # before[k] =>
                  /\ OnAdd \/ OnChange
                  /\ k \in DOMAIN loaded
                  /\ after[k] = loaded[k]
           /\ RemoveFile => internalConfig' = internalConfig ]_vars

\* the snapshot still holds the key A it loaded from the startup file, after
\* the change listener ran on a file that defines B alone
C16_Witness ==
  /\ internalConfig.validated.defined
  /\ handled = [event |-> "change", raised |-> "none",
                saw |-> JsonFile(JObject([k \in {"B"} |-> Num("9999")], NoData))]
  /\ dynFile0 = JsonFile(JObject(EmptyMap, DataObject([k \in {"A"} |-> Num("8888")])))
  /\ "A" \in DOMAIN internalConfig.validated.obj
  /\ internalConfig.validated.obj["A"] = Num("8888")
  /\ "B" \in DOMAIN internalConfig.validated.obj
  /\ internalConfig.validated.obj["B"] = Num("9999")

\* the factories a module registers
Registered ==
  IF options.entry = "forRoot"
  THEN {options.load[i] : i \in 1..Len(options.load)}
  ELSE {options.feature}

\* C17: once the loaders have run, the host holds under the registration token
\* of every factory of forRoot's load list, or of the factory given to
\* forFeature, the partial that factory produced, in place of any partial
\* the token held before, and nothing else of the host's partials has changed;
\* until then the host's partials are as they were
C17_PartialUnderOwnToken ==
  /\ phase \in {"start", "configured", "aborted"} =>
       internalConfig.partials \in HostPartials
  /\ phase = "running" =>
       /\ \A f \in Registered :
            /\ f.token \in DOMAIN internalConfig.partials
            /\ internalConfig.partials[f.token] = f.partial
       /\ \E prior \in HostPartials :
            /\ DOMAIN internalConfig.partials
                 = DOMAIN prior \cup {f.token : f \in Registered}
            /\ \A t \in DOMAIN prior \ {f.token : f \in Registered} :
                 internalConfig.partials[t] = prior[t]

\* forRoot loaded two factories, pushed the snapshot's loader and the path
\* after them, and the database partial took the place of an earlier one
C17_Witness ==
  /\ phase = "running"
  /\ options.load = <<Cache, Database>>
  /\ validatedEnvConfig.defined
  /\ PathDefined(options.dynamicConfigPath)
  /\ internalConfig.partials
       = [t \in {"cache", "database"} |->
            IF t = "cache" THEN Cache.partial ELSE Database.partial]

\* C18: a listener leaves the process environment, the partials and
\* everything of the host but its snapshot as they were
C18_ReloadTouchesSnapshotOnly ==
  [][ (OnAdd \/ OnChange) =>
        /\ processEnv' = processEnv
        /\ internalConfig'.partials = internalConfig.partials
        /\ internalConfig'.store = internalConfig.store ]_vars

\* a listener has put in the snapshot of a module that holds a partial a key
\* that the process environment does not have
C18_Witness ==
  /\ handled.event \in {"add", "change"}
  /\ handled.raised = "none"
  /\ internalConfig.partials # EmptyMap
  /\ \E k \in Keys :
       /\ internalConfig.validated.defined
       /\ k \in DOMAIN internalConfig.validated.obj
       /\ Holds(handled.saw, k, internalConfig.validated.obj[k])
       /\ k \notin DOMAIN processEnv

====
